---- MODULE Spec2Model ----
(***************************************************************************)
(* Slurdle: a Wordle-like game written as a single Streamlit script        *)
(* (src/wordle/website.py).  The module models                             *)
(*   - the pure helpers load_words, wordle_feedback and update_keyboard,   *)
(*     computed the way the Python code computes them;                     *)
(*   - the script itself as a state machine over st.session_state: one     *)
(*     step is one execution of the script (a Streamlit "run"), taken with *)
(*     the widget values of that run.                                      *)
(* Strings are sequences of one-character strings, so that indexing,       *)
(* len(), strip() and lower() are the operations of the code.              *)
(***************************************************************************)
EXTENDS Integers, Sequences, FiniteSets, TLC

(* website.py:17 and :18 *)
WORD_LENGTH == 5
MAX_GUESSES == 6

(***************************************************************************)
(* Bounds of the model.                                                    *)
(*   NumLetters : letters of FbLetters the scoring inputs are built from   *)
(*   NumLines   : lines of WordsTxtLines present in words.txt              *)
(*   NumInputs  : entries of RawInputs the player may type                 *)
(*   LwMaxLines : lines of the words.txt files the loading specification   *)
(*                starts from                                              *)
(***************************************************************************)
NumLetters == 3
NumLines == 3
NumInputs == 8
LwMaxLines == 3

(* ------------------------------ characters ----------------------------- *)

(* string.ascii_lowercase *)
ascii_lowercase ==
  {"a","b","c","d","e","f","g","h","i","j","k","l","m",
   "n","o","p","q","r","s","t","u","v","w","x","y","z"}

UpperChars ==
  <<"A","B","C","D","E","F","G","H","I","J","K","L","M",
    "N","O","P","Q","R","S","T","U","V","W","X","Y","Z">>

LowerChars ==
  <<"a","b","c","d","e","f","g","h","i","j","k","l","m",
    "n","o","p","q","r","s","t","u","v","w","x","y","z">>

(* The characters str.strip() removes; the inputs of the model use the     *)
(* blank and the tab.                                                      *)
Whitespace == {" ", "\t"}

(* str.lower() on one character: an ASCII capital becomes its small        *)
(* letter, every other character of the model is left as it is.            *)
char_lower(ch) ==
  IF \E i \in DOMAIN UpperChars : UpperChars[i] = ch
    THEN LowerChars[CHOOSE i \in DOMAIN UpperChars : UpperChars[i] = ch]
    ELSE ch

(* str.lower() *)
str_lower(s) == [i \in 1..Len(s) |-> char_lower(s[i])]

RECURSIVE str_lstrip(_)
str_lstrip(s) ==
  IF s # <<>> /\ Head(s) \in Whitespace THEN str_lstrip(Tail(s)) ELSE s

RECURSIVE str_rstrip(_)
str_rstrip(s) ==
  IF s # <<>> /\ s[Len(s)] \in Whitespace
    THEN str_rstrip(SubSeq(s, 1, Len(s) - 1))
    ELSE s

(* str.strip() *)
str_strip(s) == str_rstrip(str_lstrip(s))

(* ------------------------------ dictionaries --------------------------- *)

(* A Python dict is a function whose domain is its set of keys.            *)
EmptyDict == [k \in {} |-> 0]

(* d.get(k, dflt) *)
DictGet(d, k, dflt) == IF k \in DOMAIN d THEN d[k] ELSE dflt

(* d[k] = v *)
DictSet(d, k, v) == [x \in (DOMAIN d) \cup {k} |-> IF x = k THEN v ELSE d[x]]

Max(a, b) == IF a >= b THEN a ELSE b

Min(a, b) == IF a <= b THEN a ELSE b

(* ------------------------------ load_words ----------------------------- *)

(* The fallback list of load_words, website.py:32. *)
DefaultWords ==
  <<
       <<"a","b","b","i","e">>, <<"a","b","e","e","d">>, <<"a","i","r","e","d">>,
       <<"a","r","g","i","e">>, <<"a","s","e","n","g">>, <<"a","s","i","n","g">>,
       <<"b","a","h","i","a">>, <<"b","a","n","t","u">>, <<"b","a","t","a","k">>,
       <<"b","i","m","b","o">>, <<"b","i","n","d","i">>, <<"b","i","t","c","h">>,
       <<"b","o","a","n","g">>, <<"b","o","c","h","e">>, <<"b","o","s","c","h">>,
       <<"b","u","l","b","a">>, <<"b","u","n","g","a">>, <<"c","h","i","n","k">>,
       <<"c","h","o","l","o">>, <<"c","h","o","n","g">>, <<"c","o","k","i","n">>,
       <<"c","u","s","h","i">>, <<"d","a","l","l","e">>, <<"d","a","r","k","y">>,
       <<"d","h","o","t","i">>, <<"d","o","g","a","n">>, <<"d","o","g","u","n">>,
       <<"f","r","i","c","c">>, <<"f","r","i","t","z">>, <<"g","a","b","e","l">>,
       <<"g","a","d","j","o">>, <<"g","a","l","l","a">>, <<"g","a","r","o","i">>,
       <<"g","h","a","t","i">>, <<"g","i","n","z","o">>, <<"g","i","p","p","o">>,
       <<"g","o","d","o","n">>, <<"g","o","o","k","y">>, <<"g","o","y","i","m">>,
       <<"g","o","y","u","m">>, <<"g","r","a","g","o">>, <<"g","r","o","i","d">>,
       <<"g","u","b","b","a">>, <<"g","u","i","d","o">>, <<"g","y","p","p","o">>,
       <<"g","y","p","p","y">>, <<"g","y","p","s","y">>, <<"h","a","d","j","i">>,
       <<"h","a","j","j","i">>, <<"h","a","m","b","a">>, <<"h","a","o","l","e">>,
       <<"h","u","j","a","a">>, <<"h","u","n","k","y">>, <<"h","u","r","r","i">>,
       <<"h","y","m","i","e">>, <<"i","n","j","u","n">>, <<"j","a","k","u","n">>,
       <<"j","a","m","e","t">>, <<"j","a","w","i","r">>, <<"j","e","r","r","y">>,
       <<"j","i","d","a","n">>, <<"j","i","d","o","v">>, <<"j","o","c","k","y">>,
       <<"k","a","f","i","r">>, <<"k","a","l","a","r">>, <<"k","a","l","i","a">>,
       <<"k","a","l","l","u">>, <<"k","a","t","w","a">>, <<"k","a","t","w","e">>,
       <<"k","e","b","a","b">>, <<"k","h","a","c","h">>, <<"k","r","a","u","t">>,
       <<"l","a","b","a","s">>, <<"l","e","u","p","e">>, <<"l","i","m","e","y">>,
       <<"l","u","b","r","a">>, <<"l","u","g","a","n">>, <<"l","y","a","k","h">>,
       <<"m","a","j","u","s">>, <<"m","a","l","a","u">>, <<"m","a","l","o","n">>,
       <<"m","a","n","n","e">>, <<"m","o","c","r","o">>, <<"m","o","m","o","s">>,
       <<"n","a","m","a","k">>, <<"n","a","w","a","r">>, <<"n","e","g","e","r">>,
       <<"n","e","g","r","o">>, <<"n","i","c","h","i">>, <<"n","i","d","g","e">>,
       <<"n","i","g","a","r">>, <<"n","i","g","e","r">>, <<"n","i","g","g","a">>,
       <<"n","i","g","o","r">>, <<"n","i","g","r","a">>, <<"n","i","g","r","e">>,
       <<"p","a","d","d","y">>, <<"p","e","n","i","s">>, <<"p","i","k","e","r">>,
       <<"p","i","k","e","y">>, <<"p","l","o","u","c">>, <<"p","o","c","h","a">>,
       <<"p","o","c","h","o">>, <<"p","o","l","a","k">>, <<"p","o","m","m","y">>,
       <<"p","s","h","e","k">>, <<"p","u","s","s","y">>, <<"r","a","p","e","s">>,
       <<"r","a","p","e","r">>, <<"r","o","s","k","e">>, <<"r","u","s","k","i">>,
       <<"s","e","p","p","o">>, <<"s","h","i","n","a">>, <<"s","l","a","n","t">>,
       <<"s","l","o","b","o">>, <<"s","l","o","p","e">>, <<"s","l","o","p","y">>,
       <<"s","o","o","t","y">>, <<"s","p","a","d","e">>, <<"s","p","i","c","k">>,
       <<"s","p","o","o","k">>, <<"s","q","u","a","w">>, <<"s","z","k","o","p">>,
       <<"s","z","w","a","b">>, <<"t","a","f","f","y">>, <<"t","a","n","k","a">>,
       <<"t","i","b","l","a">>, <<"t","i","m","u","r">>, <<"t","o","d","a","y">>,
       <<"t","o","n","t","o">>, <<"t","u","r","c","o">>, <<"t","u","r","k","o">>,
       <<"t","u","r","k","s">>, <<"u","k","r","o","p">>, <<"v","a","n","j","a">>,
       <<"w","i","g","g","a">>
  >>

(* The filter of website.py:28 (and of the validation at :160):            *)
(* len(w) == WORD_LENGTH and all(ch in string.ascii_lowercase for ch in w) *)
IsWord(w) ==
  /\ Len(w) = WORD_LENGTH
  /\ \A i \in 1..Len(w) : w[i] \in ascii_lowercase

(* A load_words that returns the filtered list even when it is empty.      *)
load_words_no_fallback(file) ==
  IF file.exists
    THEN SelectSeq([i \in 1..Len(file.lines) |->
                      str_lower(str_strip(file.lines[i]))], IsWord)
    ELSE DefaultWords

(* load_words.  file.exists is Path("words.txt").exists(); file.lines is   *)
(* read_text().splitlines().                                               *)
load_words(file) ==
  IF file.exists
    THEN LET stripped == [i \in 1..Len(file.lines) |->
                            str_lower(str_strip(file.lines[i]))]
             kept     == SelectSeq(stripped, IsWord)
         IN  IF kept # <<>> THEN kept ELSE DefaultWords
    ELSE DefaultWords

(* random.choice(words): the values it may return. *)
choose_answer(ws) == {ws[i] : i \in 1..Len(ws)}

(* ---------------------------- wordle_feedback -------------------------- *)

(* The locals of wordle_feedback: result = [0] * WORD_LENGTH and            *)
(* remaining = {} (website.py:43, :45).                                     *)
FeedbackStart ==
  [result |-> [i \in 1..WORD_LENGTH |-> 0], remaining |-> EmptyDict]

(* A first pass that counts every letter of the answer as remaining, the   *)
(* exactly matched ones too.                                                *)
FirstPassStepCountsAll(st, g, a, i) ==
  [result    |-> IF g = a THEN [st.result EXCEPT ![i] = 2] ELSE st.result,
   remaining |-> DictSet(st.remaining, a, DictGet(st.remaining, a, 0) + 1)]

(* A first pass that never looks at the last position.                      *)
FirstPassStepSkipsLast(st, g, a, i) ==
  IF i = WORD_LENGTH THEN st
  ELSE IF g = a
    THEN [st EXCEPT !.result[i] = 2]
    ELSE [st EXCEPT !.remaining =
                       DictSet(@, a, DictGet(@, a, 0) + 1)]

(* One iteration of the first loop, website.py:46-50, at position i with   *)
(* g = guess[i] and a = answer[i].                                         *)
FirstPassStep(st, g, a, i) ==
  IF g = a
    THEN [st EXCEPT !.result[i] = 2]
    ELSE [st EXCEPT !.remaining =
                       DictSet(@, a, DictGet(@, a, 0) + 1)]

(* The first loop: enumerate(zip(guess, answer)) stops at the shorter one. *)
RECURSIVE FirstPass(_, _, _, _)
FirstPass(st, guess_, answer_, i) ==
  IF i > Min(Len(guess_), Len(answer_)) THEN st
  ELSE FirstPass(FirstPassStep(st, guess_[i], answer_[i], i),
                 guess_, answer_, i + 1)

(* A second pass that tests remaining >= 0 instead of > 0.                  *)
SecondPassStepOffByOne(st, g, i) ==
  IF st.result[i] # 0 THEN st
  ELSE IF DictGet(st.remaining, g, 0) >= 0
    THEN [result    |-> [st.result EXCEPT ![i] = 1],
          remaining |-> DictSet(st.remaining, g,
                                DictGet(st.remaining, g, 0) - 1)]
    ELSE st

(* One iteration of the second loop, website.py:52-57.                      *)
SecondPassStep(st, g, i) ==
  IF st.result[i] # 0 THEN st
  ELSE IF DictGet(st.remaining, g, 0) > 0
    THEN [result    |-> [st.result EXCEPT ![i] = 1],
          remaining |-> [st.remaining EXCEPT ![g] = @ - 1]]
    ELSE st

RECURSIVE SecondPass(_, _, _)
SecondPass(st, guess_, i) ==
  IF i > Len(guess_) THEN st
  ELSE SecondPass(SecondPassStep(st, guess_[i], i), guess_, i + 1)

(* wordle_feedback(guess, answer), website.py:39-58.                        *)
wordle_feedback(guess_, answer_) ==
  SecondPass(FirstPass(FeedbackStart, guess_, answer_, 1), guess_, 1).result

(* ---------------------------- update_keyboard -------------------------- *)

(* A keyboard update that stores the latest status instead of the best.    *)
KeyboardStepOverwrites(kb, ch, s) == DictSet(kb, ch, s)

(* kb[ch] = max(kb.get(ch, -1), s), website.py:65.                          *)
KeyboardStep(kb, ch, s) == DictSet(kb, ch, Max(DictGet(kb, ch, -1), s))

(* update_keyboard: the loop over zip(guess, fb), website.py:64-65.         *)
RECURSIVE KeyboardLoop(_, _, _, _)
KeyboardLoop(kb, guess_, fb, i) ==
  IF i > Min(Len(guess_), Len(fb)) THEN kb
  ELSE KeyboardLoop(KeyboardStep(kb, guess_[i], fb[i]), guess_, fb, i + 1)

update_keyboard(kb, guess_, fb) == KeyboardLoop(kb, guess_, fb, 1)

(* ------------------------------- inputs -------------------------------- *)

crane == <<"c","r","a","n","e">>
trace == <<"t","r","a","c","e">>
abbey == <<"a","b","b","e","y">>
ebbee == <<"e","b","b","e","e">>

(* Candidate lines of words.txt; the file of the model holds the first     *)
(* NumLines of them.  Some need trimming and lowercasing, some are         *)
(* filtered out.                                                           *)
WordsTxtLines ==
  << crane,
     <<" ","A","b","b","e","y">>,
     <<"a","b","c","d">>,
     <<"t","r","a","c","e"," ">>,
     <<"t","r","4","c","e">>,
     ebbee >>

WordsTxt ==
  [exists |-> TRUE,
   lines  |-> SubSeq(WordsTxtLines, 1, Min(NumLines, Len(WordsTxtLines)))]

(* What the player may type in the guess box (max_chars = WORD_LENGTH);    *)
(* the model uses the first NumInputs of them.                             *)
RawInputs ==
  << trace,
     crane,
     <<"C","r","a","n","e">>,
     <<"a","b","c","d">>,
     <<"a","b","3","d","e">>,
     abbey,
     <<>>,
     <<"A","b","3","d","e">>,
     ebbee,
     <<" ","a","b","c"," ">> >>

Inputs == {RawInputs[i] : i \in 1..Min(NumInputs, Len(RawInputs))}

(* The letters the inputs of the scoring specification are built from.     *)
FbLetters == <<"a","b","e","y","c","r","n","t">>

FbAlphabet == {FbLetters[i] : i \in 1..Min(NumLetters, Len(FbLetters))}

FbWords == [1..WORD_LENGTH -> FbAlphabet]

(* The worked examples of the documentation, as <<guess, answer>>.          *)
FbExamples == {<<trace, crane>>, <<ebbee, abbey>>}

(* -------------------------------- state -------------------------------- *)

VARIABLES
  words,         \* st.session_state.words
  answer,        \* st.session_state.answer
  guesses,       \* st.session_state.guesses
  feedbacks,     \* st.session_state.feedbacks
  keyboard,      \* st.session_state.keyboard
  game_over,     \* st.session_state.game_over
  enter_submit,  \* st.session_state._enter_submit (absent reads as False)
  text,          \* the value the guess box holds
  submit_btn,    \* the last run: "Submit guess" was clicked
  restart_btn,   \* the last run: the sidebar restart button was clicked
  play_btn,      \* the last run: "Play again" was clicked
  guess,         \* the last run: local guess (empty when not assigned)
  submitted,     \* the last run: local submitted (FALSE when not assigned)
  msg,           \* the last run: the status message it emitted last
  rerun,         \* the last run ended in st.rerun()
  words_txt,     \* the file words.txt the script finds
  words_loaded,  \* "words" in st.session_state
  fb_guess,      \* scoring specification: argument guess
  fb_answer,     \* scoring specification: argument answer
  fb_result,     \* scoring specification: the returned list
  fb_done        \* scoring specification: wordle_feedback has returned

session == <<words, answer, guesses, feedbacks, keyboard, game_over>>

run == <<enter_submit, text, submit_btn, restart_btn, play_btn,
         guess, submitted, msg, rerun>>

scoring == <<fb_guess, fb_answer, fb_result, fb_done>>

loading == <<words_txt, words_loaded>>

vars == <<session, run, scoring, loading>>

(* ------------------------------ the script ----------------------------- *)

(* The state after the first run of the script in a new browser session:   *)
(* website.py:116-127 fill st.session_state, the guess box is empty and no *)
(* button was clicked, so lines 147-156 leave _enter_submit False.         *)
Init ==
  /\ words_txt = WordsTxt
  /\ words_loaded = TRUE
  /\ words = load_words(words_txt)
  /\ answer \in choose_answer(words)
  /\ guesses = <<>>
  /\ feedbacks = <<>>
  /\ keyboard = EmptyDict
  /\ game_over = FALSE
  /\ enter_submit = FALSE
  /\ text = <<>>
  /\ submit_btn = FALSE
  /\ restart_btn = FALSE
  /\ play_btn = FALSE
  /\ guess = <<>>
  /\ submitted = FALSE
  /\ msg = "none"
  /\ rerun = FALSE
  /\ fb_guess = <<>>
  /\ fb_answer = <<>>
  /\ fb_result = <<>>
  /\ fb_done = FALSE

(* A run that stops before st.text_input is called does not render the     *)
(* guess box.  Whether the box still holds its text on the next run is     *)
(* decided by Streamlit, not by the script: both outcomes are allowed.      *)
BoxNotRendered == text' \in {text, <<>>}

(* A reset that leaves the keyboard as it was.                              *)
NewGameKeepsKeyboard ==
  /\ answer' \in choose_answer(words)
  /\ guesses' = <<>>
  /\ feedbacks' = <<>>
  /\ game_over' = FALSE
  /\ UNCHANGED <<words, keyboard>>

(* A reset that clears the guesses but leaves the feedbacks.                *)
NewGameKeepsFeedbacks ==
  /\ answer' \in choose_answer(words)
  /\ guesses' = <<>>
  /\ keyboard' = EmptyDict
  /\ game_over' = FALSE
  /\ UNCHANGED <<words, feedbacks>>

(* A reset that draws the answer from the built-in list instead of the     *)
(* loaded one.                                                              *)
NewGameFromDefaultWords ==
  /\ answer' \in choose_answer(DefaultWords)
  /\ guesses' = <<>>
  /\ feedbacks' = <<>>
  /\ keyboard' = EmptyDict
  /\ game_over' = FALSE
  /\ UNCHANGED words

(* The reset both buttons perform, website.py:133-137 and :183-187.        *)
NewGame ==
  /\ answer' \in choose_answer(words)
  /\ guesses' = <<>>
  /\ feedbacks' = <<>>
  /\ keyboard' = EmptyDict
  /\ game_over' = FALSE
  /\ UNCHANGED words

(* website.py:132-138: the sidebar button was clicked.  st.rerun() ends    *)
(* the run before the main part is reached.                                *)
SidebarRestart ==
  /\ NewGame
  /\ rerun' = TRUE
  /\ msg' = "none"
  /\ guess' = <<>>
  /\ submitted' = FALSE
  /\ BoxNotRendered
  /\ UNCHANGED enter_submit

(* A normalisation that trims but does not lowercase.                       *)
guess_input_no_lower(t) == str_strip(t)

(* website.py:148: st.text_input(...).strip().lower()                       *)
guess_input(t) == str_lower(str_strip(t))

(* A validation that checks the length only.                                *)
invalid_guess_length_only(g) == Len(g) # WORD_LENGTH

(* website.py:160: the condition of the error branch.                       *)
invalid_guess(g) ==
  \/ Len(g) # WORD_LENGTH
  \/ ~ (\A i \in 1..Len(g) : g[i] \in ascii_lowercase)

(* An end-of-game test that is late by one guess.                           *)
out_of_guesses_late(gs) == Len(gs) > MAX_GUESSES

(* website.py:173: len(st.session_state.guesses) >= MAX_GUESSES             *)
out_of_guesses(gs) == Len(gs) >= MAX_GUESSES

(* website.py:147-177: the game is not over.  t is the value of the guess  *)
(* box and sb the value of the "Submit guess" button in this run.          *)
MainBranch(t, sb) ==
  LET g   == guess_input(t)
      sub == sb \/ (Len(g) = WORD_LENGTH /\ enter_submit)
      fb  == wordle_feedback(g, answer)
  IN  /\ text' = t
      /\ guess' = g
      /\ submitted' = sub
      /\ enter_submit' = (Len(g) = WORD_LENGTH /\ ~sub)
      /\ IF ~sub
           THEN /\ msg' = "none"
                /\ rerun' = FALSE
                /\ UNCHANGED session
         ELSE IF invalid_guess(g)
           THEN /\ msg' = "invalid"
                /\ rerun' = FALSE
                /\ UNCHANGED session
         ELSE /\ guesses' = Append(guesses, g)
              /\ feedbacks' = Append(feedbacks, fb)
              /\ keyboard' = update_keyboard(keyboard, g, fb)
              /\ IF g = answer
                   THEN msg' = "correct" /\ game_over' = TRUE
                 ELSE IF out_of_guesses(guesses')
                   THEN msg' = "out" /\ game_over' = TRUE
                 ELSE msg' = "none" /\ UNCHANGED game_over
              /\ rerun' = TRUE
              /\ UNCHANGED <<words, answer>>

(* website.py:178-188: the game is over.  pb is the value of the           *)
(* "Play again" button in this run.                                        *)
GameOverBranch(pb) ==
  /\ msg' = "lost"
  /\ guess' = <<>>
  /\ submitted' = FALSE
  /\ BoxNotRendered
  /\ UNCHANGED enter_submit
  /\ IF pb
       THEN NewGame /\ rerun' = TRUE
       ELSE rerun' = FALSE /\ UNCHANGED session

(* A script without the game_over test of line 147.                         *)
ScriptNoGameOverTest(t, sb, rb, pb) ==
  /\ submit_btn' = sb
  /\ restart_btn' = rb
  /\ play_btn' = pb
  /\ UNCHANGED <<scoring, loading>>
  /\ IF rb THEN SidebarRestart ELSE MainBranch(t, sb)

(* One run of the script, website.py:116-188, with the widget values of    *)
(* the run: t the guess box, sb "Submit guess", rb the sidebar button, pb  *)
(* "Play again".                                                           *)
Script(t, sb, rb, pb) ==
  /\ submit_btn' = sb
  /\ restart_btn' = rb
  /\ play_btn' = pb
  /\ UNCHANGED <<scoring, loading>>
  /\ IF rb THEN SidebarRestart
     ELSE IF ~game_over THEN MainBranch(t, sb)
     ELSE GameOverBranch(pb)

(* ------------------------------ the player ----------------------------- *)

(* The player changes the text of the guess box and presses Enter.         *)
EnterText ==
  /\ ~rerun /\ ~game_over
  /\ \E t \in Inputs \ {text} : Script(t, FALSE, FALSE, FALSE)

(* The player clicks "Submit guess", having typed t or left the box as it  *)
(* was.                                                                    *)
ClickSubmit ==
  /\ ~rerun /\ ~game_over
  /\ \E t \in Inputs \cup {text} : Script(t, TRUE, FALSE, FALSE)

(* A click on "Submit guess" that reaches the script when the game is      *)
(* already over (a second click sent before the page was redrawn).         *)
LateSubmit ==
  /\ ~rerun /\ game_over
  /\ Script(text, TRUE, FALSE, FALSE)

(* The player clicks the sidebar button "New Answer / Restart".            *)
ClickRestart ==
  /\ ~rerun
  /\ Script(text, FALSE, TRUE, FALSE)

(* The player clicks "Play again", which is drawn when the game is over.   *)
ClickPlayAgain ==
  /\ ~rerun /\ game_over
  /\ Script(text, FALSE, FALSE, TRUE)

(* The run st.rerun() asked for, or a rerun the player asks for (the       *)
(* "Rerun" command of the page): no button is clicked, the box is as it    *)
(* was.                                                                    *)
Rerun ==
  \E t \in {text} : Script(t, FALSE, FALSE, FALSE)

Next ==
  \/ EnterText
  \/ ClickSubmit
  \/ LateSubmit
  \/ ClickRestart
  \/ ClickPlayAgain
  \/ Rerun

Spec == Init /\ [][Next]_vars

(* ------------------- a session that is never restarted ---------------- *)

(* A click on "Submit guess" whose guess is accepted and recorded.         *)
AcceptedSubmit == ClickSubmit /\ Len(guesses') > Len(guesses)

(* The run st.rerun() asked for.                                           *)
PendingRerun == rerun /\ Rerun

(* The runs of a session in which neither the sidebar button nor "Play     *)
(* again" is clicked.                                                      *)
LiveNext ==
  \/ EnterText
  \/ ClickSubmit
  \/ LateSubmit
  \/ Rerun

(* The guess box and the "Submit guess" button are drawn and no rerun is   *)
(* pending: the states in which AcceptedSubmit is enabled, as Inputs        *)
(* always holds a guess that passes the validation.                         *)
CanSubmit == ~rerun /\ ~game_over

(* Streamlit runs the script again after st.rerun(): WF_vars(PendingRerun). *)
(* The player keeps submitting guesses that are accepted while that is      *)
(* possible: weak fairness of AcceptedSubmit, written out with CanSubmit    *)
(* for ENABLED <<AcceptedSubmit>>_vars.                                     *)
LiveSpec ==
  /\ Init
  /\ [][LiveNext]_vars
  /\ WF_vars(PendingRerun)
  /\ ([]<>(~CanSubmit) \/ []<><<AcceptedSubmit>>_vars)

(* ----------------------- the scoring specification --------------------- *)

(* wordle_feedback called once on a guess and an answer of WORD_LENGTH     *)
(* letters; the session is left in a fixed state.                          *)
FbInit ==
  /\ \E pair \in (FbWords \X FbWords) \cup FbExamples :
        fb_guess = pair[1] /\ fb_answer = pair[2]
  /\ fb_result = <<>>
  /\ fb_done = FALSE
  /\ words_txt = WordsTxt
  /\ words_loaded = FALSE
  /\ words = <<>>
  /\ answer = <<>>
  /\ guesses = <<>>
  /\ feedbacks = <<>>
  /\ keyboard = EmptyDict
  /\ game_over = FALSE
  /\ enter_submit = FALSE
  /\ text = <<>>
  /\ submit_btn = FALSE
  /\ restart_btn = FALSE
  /\ play_btn = FALSE
  /\ guess = <<>>
  /\ submitted = FALSE
  /\ msg = "none"
  /\ rerun = FALSE

CallFeedback ==
  /\ ~fb_done
  /\ fb_result' = wordle_feedback(fb_guess, fb_answer)
  /\ fb_done' = TRUE
  /\ UNCHANGED <<fb_guess, fb_answer, session, run, loading>>

FbNext == CallFeedback

FbSpec == FbInit /\ [][FbNext]_vars

(* ----------------------- the loading specification --------------------- *)

RECURSIVE SeqsUpTo(_, _)
SeqsUpTo(S, n) ==
  IF n = 0 THEN {<<>>}
  ELSE LET shorter == SeqsUpTo(S, n - 1)
       IN  shorter \cup {Append(sq, x) : sq \in shorter, x \in S}

(* The files words.txt the loading specification starts from: no file, or  *)
(* up to LwMaxLines lines taken from WordsTxtLines.                        *)
LwFiles ==
  {[exists |-> FALSE, lines |-> <<>>]} \cup
  {[exists |-> TRUE, lines |-> ls] :
     ls \in SeqsUpTo({WordsTxtLines[i] : i \in 1..Len(WordsTxtLines)},
                     LwMaxLines)}

(* A new browser session before the first run: st.session_state is empty.  *)
LwInit ==
  /\ words_txt \in LwFiles
  /\ words_loaded = FALSE
  /\ words = <<>>
  /\ answer = <<>>
  /\ guesses = <<>>
  /\ feedbacks = <<>>
  /\ keyboard = EmptyDict
  /\ game_over = FALSE
  /\ enter_submit = FALSE
  /\ text = <<>>
  /\ submit_btn = FALSE
  /\ restart_btn = FALSE
  /\ play_btn = FALSE
  /\ guess = <<>>
  /\ submitted = FALSE
  /\ msg = "none"
  /\ rerun = FALSE
  /\ fb_guess = <<>>
  /\ fb_answer = <<>>
  /\ fb_result = <<>>
  /\ fb_done = FALSE

(* website.py:116-117: words is set from load_words() when it is absent.   *)
LoadWordsOnce ==
  /\ ~words_loaded
  /\ words' = load_words(words_txt)
  /\ words_loaded' = TRUE
  /\ UNCHANGED <<answer, guesses, feedbacks, keyboard, game_over,
                 run, scoring, words_txt>>

LwNext == LoadWordsOnce

LwSpec == LwInit /\ [][LwNext]_vars

(* ------------------------------- claims -------------------------------- *)

(* Positions of word w that hold the letter ch.                             *)
Positions(w, ch) == {i \in 1..Len(w) : w[i] = ch}

(* Positions of the guess that hold ch and are marked Present or Correct.   *)
Marked(g, fb, ch) == {i \in Positions(g, ch) : fb[i] \in {1, 2}}

Letters(w) == {w[i] : i \in 1..Len(w)}

(* C1: in the feedback of any guess against any answer, the number of      *)
(* positions holding a given letter that are marked Present or Correct     *)
(* never exceeds the number of occurrences of that letter in the answer.   *)
C1_MarksBoundedByAnswer ==
  fb_done =>
    \A ch \in Letters(fb_guess) :
      Cardinality(Marked(fb_guess, fb_result, ch))
        <= Cardinality(Positions(fb_answer, ch))

(* The documented duplicate-letter example: answer abbey, guess ebbee. Of  *)
(* the three e of the guess one is marked, as the answer has one e.        *)
C1_Witness ==
  /\ fb_done
  /\ fb_guess = ebbee
  /\ fb_answer = abbey
  /\ fb_result = <<0, 2, 2, 2, 0>>

(* C2 as stated: answer crane, guess trace gives [0, 2, 1, 1, 2].          *)
C2_AsStated ==
  (fb_done /\ fb_guess = trace /\ fb_answer = crane)
    => fb_result = <<0, 2, 1, 1, 2>>

(* C2, amended: answer crane, guess trace gives [0, 2, 2, 1, 2]; the a is  *)
(* at the third position of both words and is Correct.                     *)
C2_TraceAgainstCrane ==
  (fb_done /\ fb_guess = trace /\ fb_answer = crane)
    => fb_result = <<0, 2, 2, 1, 2>>

C2_Witness ==
  /\ fb_done
  /\ fb_guess = trace
  /\ fb_answer = crane
  /\ fb_result[3] = 2

(* C3: a guess equal to the answer is Correct at every position.           *)
C3_EqualIsAllCorrect ==
  (fb_done /\ fb_guess = fb_answer)
    => \A i \in 1..WORD_LENGTH : fb_result[i] = 2

(* A word with repeated letters scored against itself.                     *)
C3_Witness ==
  /\ fb_done
  /\ fb_guess = <<"a","b","b","e","a">>
  /\ fb_answer = fb_guess
  /\ fb_result = <<2, 2, 2, 2, 2>>

(* C4: a guess that has no letter in common with the answer is Absent at   *)
(* every position.                                                         *)
C4_DisjointIsAllAbsent ==
  (fb_done /\ Letters(fb_guess) \cap Letters(fb_answer) = {})
    => \A i \in 1..WORD_LENGTH : fb_result[i] = 0

C4_Witness ==
  /\ fb_done
  /\ fb_guess = <<"a","b","a","b","b">>
  /\ fb_answer = <<"e","e","e","e","e">>
  /\ fb_result = <<0, 0, 0, 0, 0>>

Last(sq) == sq[Len(sq)]

Won == guesses # <<>> /\ Last(guesses) = answer

NoMatch == \A i \in 1..Len(guesses) : guesses[i] # answer

(* C5: after a matching guess the session is terminal and what it reports  *)
(* is a win, not the loss reported after MAX_GUESSES non-matching guesses. *)
C5_MatchReportsWin ==
  (game_over /\ Won) => msg # "lost"

(* C6: with no matching guess recorded, the session is terminal exactly    *)
(* when MAX_GUESSES guesses are recorded: in progress after fewer, over    *)
(* as soon as the MAX_GUESSES-th is recorded.                              *)
C6_LostExactlyAtMaxGuesses ==
  NoMatch => (game_over <=> Len(guesses) = MAX_GUESSES)

C6_Witness ==
  /\ NoMatch
  /\ Len(guesses) = MAX_GUESSES
  /\ game_over
  /\ submitted

(* C7: once the session is terminal, a run changes the history, the        *)
(* feedbacks, the keyboard, the answer and the terminal flag only when the *)
(* restart button or the play-again button was clicked.                    *)
C7_TerminalRejectsGuesses ==
  [][(game_over /\ ~restart_btn' /\ ~play_btn') => UNCHANGED session]_vars

(* A submit click handled by a terminal session.                           *)
C7_Witness ==
  /\ game_over
  /\ submit_btn
  /\ msg = "lost"
  /\ ~rerun

(* C8: a submitted guess of the wrong length or with a character that is   *)
(* no letter gets the error message and leaves the session as it was.      *)
C8_InvalidGuessRejected ==
  [][(/\ submitted'
      /\ \/ Len(guess') # WORD_LENGTH
         \/ \E i \in 1..Len(guess') : guess'[i] \notin ascii_lowercase)
       => (msg' = "invalid" /\ UNCHANGED session)]_vars

C8_Witness ==
  /\ submitted
  /\ text = <<"a","b","3","d","e">>
  /\ msg = "invalid"
  /\ guesses # <<>>

HasUpper(s) == \E i \in 1..Len(s) : \E j \in DOMAIN UpperChars : s[i] = UpperChars[j]

(* C9 as stated: a submitted input with an uppercase character is rejected *)
(* with the error message.                                                 *)
C9_AsStated ==
  (submitted /\ HasUpper(text)) => msg = "invalid"

(* C9, amended: a submitted input with an uppercase letter is trimmed and  *)
(* lowercased first; if that gives WORD_LENGTH letters a-z it is accepted  *)
(* and recorded in its lowercase form, otherwise it is rejected.           *)
C9_UppercaseIsLowercased ==
  [][(submitted' /\ HasUpper(text')) =>
       IF IsWord(str_lower(str_strip(text')))
         THEN /\ msg' # "invalid"
              /\ guesses' = Append(guesses, str_lower(str_strip(text')))
         ELSE /\ msg' = "invalid"
              /\ UNCHANGED session]_vars

C9_Witness ==
  /\ submitted
  /\ text = <<"C","r","a","n","e">>
  /\ guesses # <<>>
  /\ Last(guesses) = crane

(* C10: a run in which the restart button (or the play-again button) was   *)
(* clicked leaves empty guesses, feedbacks and keyboard, game_over false   *)
(* and an answer of the loaded word list.                                  *)
C10_RestartResets ==
  (restart_btn \/ play_btn) =>
    /\ guesses = <<>>
    /\ feedbacks = <<>>
    /\ keyboard = EmptyDict
    /\ game_over = FALSE
    /\ answer \in choose_answer(words)

(* The restart run itself, taken with a guess left in the box.             *)
C10_Witness ==
  /\ restart_btn
  /\ rerun
  /\ text = crane
  /\ guesses = <<>>
  /\ keyboard = EmptyDict

(* The filter as the documentation states it: exactly WORD_LENGTH          *)
(* characters, all of them in a-z.                                         *)
WellFormed(w) ==
  /\ Len(w) = WORD_LENGTH
  /\ \A i \in 1..Len(w) : \E j \in DOMAIN LowerChars : w[i] = LowerChars[j]

(* The lines of a file, each trimmed and lowercased, the well-formed ones  *)
(* kept in order.                                                          *)
Candidates(file) ==
  SelectSeq([i \in 1..Len(file.lines) |-> str_lower(str_strip(file.lines[i]))],
            WellFormed)

(* C13: load_words returns the trimmed, lowercased, well-formed candidates *)
(* of the file when there are any, the built-in list when the file is      *)
(* absent or has none; the result is never empty and holds only words of   *)
(* WORD_LENGTH letters a-z.                                                *)
C13_LoadWords ==
  words_loaded =>
    /\ words = IF words_txt.exists /\ Candidates(words_txt) # <<>>
                 THEN Candidates(words_txt)
                 ELSE DefaultWords
    /\ words # <<>>
    /\ \A i \in 1..Len(words) : WellFormed(words[i])

(* A file that exists and whose lines are all filtered out: the built-in   *)
(* list is returned.                                                       *)
C13_Witness ==
  /\ words_loaded
  /\ words_txt.exists
  /\ words_txt.lines = << <<"a","b","c","d">>, <<"t","r","4","c","e">> >>
  /\ words = DefaultWords

(* C11: within a session (a run in which neither the restart nor the      *)
(* play-again button was clicked) no letter leaves the keyboard and no     *)
(* letter's status decreases.                                              *)
C11_KeyboardMonotonic ==
  [][(~restart_btn' /\ ~play_btn') =>
       \A ch \in DOMAIN keyboard :
         /\ ch \in DOMAIN keyboard'
         /\ keyboard'[ch] >= keyboard[ch]]_vars

(* Answer crane: a was Correct in an earlier guess and is only Present in  *)
(* the last one (abbey); the keyboard still shows Correct.                 *)
C11_Witness ==
  /\ answer = crane
  /\ Len(guesses) >= 2
  /\ Last(guesses) = abbey
  /\ Last(feedbacks)[1] = 1
  /\ "a" \in DOMAIN keyboard
  /\ keyboard["a"] = 2

(* C12: the number of recorded guesses is at most MAX_GUESSES.             *)
C12_AtMostMaxGuesses ==
  Len(guesses) <= MAX_GUESSES

(* The last allowed guess was recorded, and it matched.                    *)
C12_Witness ==
  /\ Len(guesses) = MAX_GUESSES
  /\ Won
  /\ game_over

(* The statuses a letter received at the positions of the recorded guesses *)
(* that hold it.                                                           *)
Observed(ch) ==
  {feedbacks[i][j] : <<i, j>> \in
     {ij \in (1..Len(guesses)) \X (1..WORD_LENGTH) : guesses[ij[1]][ij[2]] = ch}}

(* C14: the keys of the keyboard are the letters of the recorded guesses   *)
(* and the status of each is the largest status it received in any of them.*)
C14_KeyboardIsAggregate ==
  /\ Len(feedbacks) = Len(guesses)
  /\ DOMAIN keyboard = UNION {Letters(guesses[i]) : i \in 1..Len(guesses)}
  /\ \A ch \in DOMAIN keyboard :
       /\ keyboard[ch] \in Observed(ch)
       /\ \A st \in Observed(ch) : st <= keyboard[ch]

(* Answer crane, guesses trace then abbey: e keeps the Correct of the      *)
(* first guess although the second only has it Present.                    *)
C14_Witness ==
  /\ answer = crane
  /\ guesses = <<trace, abbey>>
  /\ keyboard = ("t" :> 0 @@ "r" :> 2 @@ "a" :> 2 @@ "c" :> 1 @@ "e" :> 2
                 @@ "b" :> 0 @@ "y" :> 0)

(* C15: when the guess holds a letter twice and the answer holds it once,  *)
(* exactly one of the two positions is marked Correct or Present and the   *)
(* other Absent; when one of the two is the answer's position of the       *)
(* letter, that one is Correct and the other Absent, whichever comes first.*)
C15_TwiceInGuessOnceInAnswer ==
  fb_done =>
    \A ch \in Letters(fb_guess) :
      (/\ Cardinality(Positions(fb_guess, ch)) = 2
       /\ Cardinality(Positions(fb_answer, ch)) = 1)
      => /\ Cardinality(Marked(fb_guess, fb_result, ch)) = 1
         /\ \A i \in Positions(fb_guess, ch) \ Marked(fb_guess, fb_result, ch) :
              fb_result[i] = 0
         /\ (Positions(fb_guess, ch) \cap Positions(fb_answer, ch) # {})
              => \A i \in Positions(fb_guess, ch) :
                   fb_result[i] = IF i \in Positions(fb_answer, ch) THEN 2 ELSE 0

(* The guess has a at positions 1 and 3, the answer only at 3: the second  *)
(* a is Correct and the first, earlier one is Absent.                      *)
C15_Witness ==
  /\ fb_done
  /\ fb_guess = <<"a","b","a","b","b">>
  /\ fb_answer = <<"e","b","a","e","e">>
  /\ fb_result = <<0, 2, 2, 0, 0>>

(* C16: guesses and feedbacks have equal length and feedbacks[i] is the    *)
(* score of guesses[i] against the answer; a run in which neither the      *)
(* restart nor the play-again button was clicked leaves both lists as they *)
(* were or appends one entry to the end of each.                           *)
C16_HistoryAppendOnly ==
  /\ [](/\ Len(guesses) = Len(feedbacks)
        /\ \A i \in 1..Len(guesses) :
             feedbacks[i] = wordle_feedback(guesses[i], answer))
  /\ [][(~restart_btn' /\ ~play_btn') =>
          \/ /\ guesses' = guesses
             /\ feedbacks' = feedbacks
          \/ /\ Len(guesses') = Len(guesses) + 1
             /\ Len(feedbacks') = Len(feedbacks) + 1
             /\ SubSeq(guesses', 1, Len(guesses)) = guesses
             /\ SubSeq(feedbacks', 1, Len(feedbacks)) = feedbacks
             /\ Last(guesses') = guess']_vars

(* Two guesses recorded against crane, then a rejected input: both records *)
(* are as they were written.                                               *)
C16_Witness ==
  /\ answer = crane
  /\ guesses = <<abbey, trace>>
  /\ feedbacks = << <<1, 0, 0, 1, 0>>, <<0, 2, 2, 1, 2>> >>
  /\ msg = "invalid"

(* C17: a run that is no submit action (no button clicked, the text of the *)
(* guess box as it was) never records a guess.                             *)
C17_RerunRecordsNothing ==
  [][Rerun => Len(guesses') <= Len(guesses)]_vars

(* C18: the answer is always a word of the loaded list; no run changes the *)
(* list, and only a run in which the restart or the play-again button was  *)
(* clicked changes the answer.                                             *)
C18_AnswerChangesOnlyByRestart ==
  /\ [](\E i \in 1..Len(words) : words[i] = answer)
  /\ [][/\ words' = words
        /\ (~restart_btn' /\ ~play_btn') => answer' = answer]_vars

(* Three accepted guesses and then a rejected one, the answer still abbey. *)
C18_Witness ==
  /\ answer = abbey
  /\ Len(guesses) = 3
  /\ msg = "invalid"
  /\ submitted

(* C19: without a restart and with the player submitting accepted guesses  *)
(* whenever that is possible, the session eventually is terminal; at every *)
(* moment it is terminal exactly when some recorded guess equals the       *)
(* answer or MAX_GUESSES guesses are recorded, and never more are.         *)
C19_EventuallyTerminal ==
  /\ <>game_over
  /\ [](game_over <=> (\/ \E i \in 1..Len(guesses) : guesses[i] = answer
                       \/ Len(guesses) = MAX_GUESSES))
  /\ [](Len(guesses) <= MAX_GUESSES)

(* A session that ended by running out of guesses, after the last rerun.   *)
C19_Witness ==
  /\ game_over
  /\ ~rerun
  /\ msg = "lost"
  /\ Len(guesses) = MAX_GUESSES
  /\ NoMatch

====
